---- MODULE Spec2Model ----
(***************************************************************************)
(* State replay of beacon-chain/state/stategen/replay.go:                  *)
(*   replayBlocks, loadBlocks, executeStateTransitionStateGen,             *)
(*   ReplayProcessSlots, loadFinalizedBlocks.                              *)
(* One call of one of these functions is modelled per behaviour, step by   *)
(* step, together with a context that may be cancelled at any moment.      *)
(***************************************************************************)
EXTENDS Integers, Sequences, FiniteSets, TLC

\* ------------------------------------------------------------------ bounds
MaxSlot == 4        \* slots of states, blocks and targets range over 0..MaxSlot
MaxSeg == 3         \* longest block list handed to replayBlocks
MaxBatch == 4       \* longest batch the block store returns

Slots == 0 .. MaxSlot

\* ------------------------------------------------------------------ values
\* Errors are sequences of message parts: errors.Wrap prepends a part.
NoErr == <<>>
ErrCancelled == <<"context canceled">>
ErrUnknownState == <<"unknown state">>
ErrSlotRegression == <<"expected state.slot <= slot">>
ErrNilBlock == <<"nil block">>
ErrProcessSlots == <<"process slots failed">>
ErrProcessBlock == <<"process block failed">>
ErrInvalidRange == <<"start slot > end slot">>
ErrDB == <<"db error">>
ErrLength == <<"length of blocks and roots don't match">>
ErrEndRoot == <<"end block roots don't match">>

Wrap(msg, err) == <<msg>> \o err

\* A beacon state: its slot and the transitions that produced it.
NilState == [nil |-> TRUE, slot |-> 0, hist |-> <<>>]
MkState(s) == [nil |-> FALSE, slot |-> s, hist |-> <<>>]

\* A signed block: slot, parent root, and its own hash tree root.
NilBlock == [nil |-> TRUE, slot |-> 0, parentRoot |-> 0, root |-> 0]
MkBlock(s, p, r) == [nil |-> FALSE, slot |-> s, parentRoot |-> p, root |-> r]

\* A returned block list: Go's nil slice is distinct from a built list.
NilBlocks == [nil |-> TRUE, list |-> <<>>]
MkBlocks(l) == [nil |-> FALSE, list |-> l]

\* Go slices are indexed from 0.
At(s, k) == s[k + 1]

\* ------------------------------------------------- transition primitives
\* transition.ProcessSlotsCore: advances the state to the slot, or fails;
\* it honours cancellation.  The set of results the call may produce.
ProcessSlotsCore(ctx, st, slot) ==
  IF ctx
  THEN {[state |-> NilState, err |-> ErrCancelled,
         calls |-> <<[fn |-> "ProcessSlotsCore", from |-> st.slot, to |-> slot, ok |-> FALSE]>>]}
  ELSE {[state |-> [st EXCEPT !.slot = slot, !.hist = Append(@, <<"slots", slot>>)],
         err |-> NoErr,
         calls |-> <<[fn |-> "ProcessSlotsCore", from |-> st.slot, to |-> slot, ok |-> TRUE]>>],
        [state |-> NilState, err |-> ErrProcessSlots,
         calls |-> <<[fn |-> "ProcessSlotsCore", from |-> st.slot, to |-> slot, ok |-> FALSE]>>]}

\* transition.ProcessBlockForStateRoot: applies the block to a state that is
\* at the block's slot, or fails.
ProcessBlockForStateRoot(ctx, st, b) ==
  {[state |-> [st EXCEPT !.hist = Append(@, <<"block", b.slot>>)],
    err |-> NoErr,
    calls |-> <<[fn |-> "ProcessBlockForStateRoot", from |-> st.slot, to |-> b.slot, ok |-> TRUE]>>],
   [state |-> NilState, err |-> ErrProcessBlock,
    calls |-> <<[fn |-> "ProcessBlockForStateRoot", from |-> st.slot, to |-> b.slot, ok |-> FALSE]>>]}

\* ------------------------------------------------------ ReplayProcessSlots
\* Variant: the check of line 180 (state.Slot() > slot) is missing.
ReplayProcessSlots_NoRegressionCheck(ctx, st, slot) ==
  IF st.nil
  THEN {[state |-> NilState, err |-> ErrUnknownState, calls |-> <<>>]}
  ELSE IF st.slot = slot
  THEN {[state |-> st, err |-> NoErr, calls |-> <<>>]}
  ELSE ProcessSlotsCore(ctx, st, slot)

ReplayProcessSlots(ctx, st, slot) ==
  IF st.nil
  THEN {[state |-> NilState, err |-> ErrUnknownState, calls |-> <<>>]}
  ELSE IF st.slot > slot
  THEN {[state |-> NilState, err |-> ErrSlotRegression, calls |-> <<>>]}
  ELSE IF st.slot = slot
  THEN {[state |-> st, err |-> NoErr, calls |-> <<>>]}
  ELSE ProcessSlotsCore(ctx, st, slot)

\* ------------------------------------------ executeStateTransitionStateGen
\* The function as a whole, under a context that does not change meanwhile.
executeStateTransitionStateGen(ctx, st, signed1) ==
  IF ctx
  THEN {[state |-> NilState, err |-> ErrCancelled, calls |-> <<>>]}
  ELSE IF signed1.nil
  THEN {[state |-> NilState, err |-> ErrNilBlock, calls |-> <<>>]}
  ELSE UNION {
    IF r.err # NoErr
    THEN {[state |-> NilState, err |-> Wrap("could not process slot", r.err), calls |-> r.calls]}
    ELSE {[state |-> (IF q.err # NoErr THEN NilState ELSE q.state),
           err |-> (IF q.err # NoErr THEN Wrap("could not process block", q.err) ELSE NoErr),
           calls |-> r.calls \o q.calls]
          : q \in ProcessBlockForStateRoot(ctx, r.state, signed1)}
    : r \in ReplayProcessSlots(ctx, st, signed1.slot)}

\* ------------------------------------------------------------ replayBlocks
\* Variant: line 49 compares with > instead of >=.
LoopHead_SkipStrict(ctx, st, tgt, b) ==
  IF ctx THEN "return"
  ELSE IF st.slot >= tgt THEN "break"
  ELSE IF st.slot > b.slot THEN "continue"
  ELSE "apply"

\* Variant: the skip of line 49 is missing.
LoopHead_NoSkip(ctx, st, tgt, b) ==
  IF ctx THEN "return"
  ELSE IF st.slot >= tgt THEN "break"
  ELSE "apply"

\* Variant: the early stop of line 45 is missing.
LoopHead_NoBreak(ctx, st, tgt, b) ==
  IF ctx THEN "return"
  ELSE IF st.slot >= b.slot THEN "continue"
  ELSE "apply"

\* Variant: the target is compared (line 45) before the context is looked at.
LoopHead_TargetFirst(ctx, st, tgt, b) ==
  IF st.slot >= tgt THEN "break"
  ELSE IF ctx THEN "return"
  ELSE IF st.slot >= b.slot THEN "continue"
  ELSE "apply"

\* The decision taken at the head of one iteration of the block loop
\* (lines 42-52).
LoopHead(ctx, st, tgt, b) ==
  IF ctx THEN "return"
  ELSE IF st.slot >= tgt THEN "break"
  ELSE IF st.slot >= b.slot THEN "continue"
  ELSE "apply"

\* Variant: line 60 is off by one.
SkipSlotsAtEnd_OffByOne(st, tgt) == tgt > st.slot + 1

\* If there are skip slots at the end.
SkipSlotsAtEnd(st, tgt) == tgt > st.slot

\* The part of replayBlocks after the block loop.
replayTail(ctx, st, tgt, cs, ap) ==
  IF SkipSlotsAtEnd(st, tgt)
  THEN {[state |-> r.state, err |-> r.err, calls |-> cs \o r.calls, applied |-> ap]
        : r \in ReplayProcessSlots(ctx, st, tgt)}
  ELSE {[state |-> st, err |-> NoErr, calls |-> cs, applied |-> ap]}

\* The block loop from index k downward, then the tail.
RECURSIVE replayLoop(_, _, _, _, _, _, _)
replayLoop(ctx, st, sg, tgt, k, cs, ap) ==
  IF k < 0 THEN replayTail(ctx, st, tgt, cs, ap)
  ELSE LET d == LoopHead(ctx, st, tgt, At(sg, k)) IN
    IF d = "return"
    THEN {[state |-> NilState, err |-> ErrCancelled, calls |-> cs, applied |-> ap]}
    ELSE IF d = "break" THEN replayTail(ctx, st, tgt, cs, ap)
    ELSE IF d = "continue" THEN replayLoop(ctx, st, sg, tgt, k - 1, cs, ap)
    ELSE UNION {
      IF r.err # NoErr
      THEN {[state |-> NilState, err |-> r.err, calls |-> cs \o r.calls,
             applied |-> Append(ap, k)]}
      ELSE replayLoop(ctx, r.state, sg, tgt, k - 1, cs \o r.calls, Append(ap, k))
      : r \in executeStateTransitionStateGen(ctx, st, At(sg, k))}

\* replayBlocks as a whole, under a context that does not change meanwhile:
\* the set of outcomes (returned state, error, primitive calls, applied blocks).
replayBlocks(ctx, st, sg, tgt) == replayLoop(ctx, st, sg, tgt, Len(sg) - 1, <<>>, <<>>)

\* ------------------------------------------------------------------- state
VARIABLES
  pc,          \* position in the running function
  op,          \* the function the caller invoked
  ctxErr,      \* ctx.Err() != nil
  ctx0,        \* ctx.Err() != nil when the function was invoked
  state,       \* the in-flight beacon state
  state0,      \* the state the caller passed
  signed,      \* replayBlocks' block list
  targetSlot,  \* replayBlocks' target / ReplayProcessSlots' slot
  i,           \* loop index
  blk,         \* executeStateTransitionStateGen's block
  calls,       \* transition primitives invoked so far
  applied,     \* indices of the blocks handed to executeStateTransitionStateGen
  retState,    \* returned state
  retErr,      \* returned error
  startSlot,   \* loadBlocks / loadFinalizedBlocks: first slot of the range
  endSlot,     \* last slot of the range
  endBlockRoot,   \* loadBlocks: root of the block the list must end at
  blocks,      \* blocks the store returned
  blockRoots,  \* their roots, as the store returned them
  length,      \* loadBlocks' narrowed length
  filteredBlocks, \* the list being built
  retBlocks    \* returned list

loadVars == <<startSlot, endSlot, endBlockRoot, blocks, blockRoots, length,
              filteredBlocks, retBlocks>>

vars == <<pc, op, ctxErr, ctx0, state, state0, signed, targetSlot, i, blk,
          calls, applied, retState, retErr, loadVars>>

Init ==
  /\ pc = "idle" /\ op = "none"
  /\ ctxErr = FALSE /\ ctx0 = FALSE
  /\ state = NilState /\ state0 = NilState
  /\ signed = <<>> /\ targetSlot = 0 /\ i = 0
  /\ blk = NilBlock
  /\ calls = <<>> /\ applied = <<>>
  /\ retState = NilState /\ retErr = NoErr
  /\ startSlot = 0 /\ endSlot = 0 /\ endBlockRoot = 0
  /\ blocks = <<>> /\ blockRoots = <<>> /\ length = 0
  /\ filteredBlocks = <<>> /\ retBlocks = NilBlocks

\* The context is cancelled (or its deadline passes) at any moment.
Cancel ==
  /\ ~ctxErr /\ pc # "done"
  /\ ctxErr' = TRUE
  /\ UNCHANGED <<pc, op, ctx0, state, state0, signed, targetSlot, i, blk,
                 calls, applied, retState, retErr, loadVars>>

Segments == UNION {[1 .. n -> {MkBlock(s, 0, 0) : s \in 1 .. MaxSlot}] : n \in 0 .. MaxSeg}

\* replayBlocks is invoked.
RbCall ==
  /\ pc = "idle"
  /\ \E s \in Slots, sg \in Segments, t \in Slots :
       /\ state' = MkState(s) /\ state0' = MkState(s)
       /\ signed' = sg /\ targetSlot' = t
       /\ i' = Len(sg) - 1
       /\ pc' = IF Len(sg) > 0 THEN "rb_loop" ELSE "rb_tail"
  /\ op' = "replayBlocks" /\ ctx0' = ctxErr
  /\ UNCHANGED <<ctxErr, blk, calls, applied, retState, retErr, loadVars>>

\* i-- and the loop condition i >= 0.
RbNext(k) == IF k - 1 >= 0 THEN "rb_loop" ELSE "rb_tail"

\* Variant: line 43 returns the state it has reached, with the error.
RbCancelled_ReturnsState ==
  /\ pc = "rb_loop"
  /\ LoopHead(ctxErr, state, targetSlot, At(signed, i)) = "return"
  /\ retState' = state /\ retErr' = ErrCancelled /\ pc' = "done"
  /\ UNCHANGED <<op, ctxErr, ctx0, state, state0, signed, targetSlot, i, blk, calls, applied, loadVars>>

\* Line 42: ctx.Err() != nil at the head of an iteration.
RbCancelled ==
  /\ pc = "rb_loop"
  /\ LoopHead(ctxErr, state, targetSlot, At(signed, i)) = "return"
  /\ retState' = NilState /\ retErr' = ErrCancelled /\ pc' = "done"
  /\ UNCHANGED <<op, ctxErr, ctx0, state, state0, signed, targetSlot, i, blk, calls, applied, loadVars>>

\* Line 45: the target slot is reached.
RbBreak ==
  /\ pc = "rb_loop"
  /\ LoopHead(ctxErr, state, targetSlot, At(signed, i)) = "break"
  /\ pc' = "rb_tail"
  /\ UNCHANGED <<op, ctxErr, ctx0, state, state0, signed, targetSlot, i, blk, calls, applied,
                 retState, retErr, loadVars>>

\* Line 49: the block is not after the state.
RbSkip ==
  /\ pc = "rb_loop"
  /\ LoopHead(ctxErr, state, targetSlot, At(signed, i)) = "continue"
  /\ i' = i - 1 /\ pc' = RbNext(i)
  /\ UNCHANGED <<op, ctxErr, ctx0, state, state0, signed, targetSlot, blk, calls, applied,
                 retState, retErr, loadVars>>

\* Line 52: the block is handed to executeStateTransitionStateGen.
RbApply ==
  /\ pc = "rb_loop"
  /\ LoopHead(ctxErr, state, targetSlot, At(signed, i)) = "apply"
  /\ blk' = At(signed, i) /\ applied' = Append(applied, i)
  /\ pc' = "ex_entry"
  /\ UNCHANGED <<op, ctxErr, ctx0, state, state0, signed, targetSlot, i, calls,
                 retState, retErr, loadVars>>

\* executeStateTransitionStateGen returns (st, err) to whoever called it:
\* the caller of the model, or line 52 of replayBlocks.
ExReturn(st, err) ==
  IF op = "replayBlocks"
  THEN /\ state' = st
       /\ IF err # NoErr
          THEN /\ retState' = NilState /\ retErr' = err /\ pc' = "done"
               /\ UNCHANGED i
          ELSE /\ i' = i - 1 /\ pc' = RbNext(i)
               /\ UNCHANGED <<retState, retErr>>
  ELSE /\ state' = st
       /\ retState' = st /\ retErr' = err /\ pc' = "done"
       /\ UNCHANGED i

\* executeStateTransitionStateGen is invoked by the caller.
ExCall ==
  /\ pc = "idle"
  /\ \E st \in {NilState} \cup {MkState(s) : s \in Slots},
        b \in {NilBlock} \cup {MkBlock(s, 0, 0) : s \in 1 .. MaxSlot} :
       /\ state' = st /\ state0' = st /\ blk' = b
  /\ op' = "executeStateTransitionStateGen" /\ ctx0' = ctxErr
  /\ pc' = "ex_entry"
  /\ UNCHANGED <<ctxErr, signed, targetSlot, i, calls, applied, retState, retErr, loadVars>>

\* Line 143.
ExCancelled ==
  /\ pc = "ex_entry" /\ ctxErr
  /\ ExReturn(NilState, ErrCancelled)
  /\ UNCHANGED <<op, ctxErr, ctx0, state0, signed, targetSlot, blk, calls, applied, loadVars>>

\* Line 146.
ExNilBlock ==
  /\ pc = "ex_entry" /\ ~ctxErr /\ blk.nil
  /\ ExReturn(NilState, ErrNilBlock)
  /\ UNCHANGED <<op, ctxErr, ctx0, state0, signed, targetSlot, blk, calls, applied, loadVars>>

\* Variant of ExSlots: the error of the slot advance (line 156) is ignored.
ExSlots_IgnoreError ==
  /\ pc = "ex_entry" /\ ~ctxErr /\ ~blk.nil
  /\ \E r \in ReplayProcessSlots(ctxErr, state, blk.slot) :
       /\ calls' = calls \o r.calls
       /\ state' = IF r.err # NoErr THEN state ELSE r.state
       /\ pc' = "ex_block"
       /\ UNCHANGED <<i, retState, retErr>>
  /\ UNCHANGED <<op, ctxErr, ctx0, state0, signed, targetSlot, blk, applied, loadVars>>

\* Line 155: per slots transition up to the block's slot.
ExSlots ==
  /\ pc = "ex_entry" /\ ~ctxErr /\ ~blk.nil
  /\ \E r \in ReplayProcessSlots(ctxErr, state, blk.slot) :
       /\ calls' = calls \o r.calls
       /\ IF r.err # NoErr
          THEN ExReturn(NilState, Wrap("could not process slot", r.err))
          ELSE /\ state' = r.state /\ pc' = "ex_block"
               /\ UNCHANGED <<i, retState, retErr>>
  /\ UNCHANGED <<op, ctxErr, ctx0, state0, signed, targetSlot, blk, applied, loadVars>>

\* Line 163: per block transition.
ExBlock ==
  /\ pc = "ex_block"
  /\ \E r \in ProcessBlockForStateRoot(ctxErr, state, blk) :
       /\ calls' = calls \o r.calls
       /\ IF r.err # NoErr
          THEN ExReturn(NilState, Wrap("could not process block", r.err))
          ELSE ExReturn(r.state, NoErr)
  /\ UNCHANGED <<op, ctxErr, ctx0, state0, signed, targetSlot, blk, applied, loadVars>>

\* Line 60: skip slots at the end.
RbTail ==
  /\ pc = "rb_tail" /\ SkipSlotsAtEnd(state, targetSlot)
  /\ \E r \in ReplayProcessSlots(ctxErr, state, targetSlot) :
       /\ calls' = calls \o r.calls
       /\ state' = r.state
       /\ IF r.err # NoErr
          THEN retState' = NilState /\ retErr' = r.err /\ pc' = "done"
          ELSE pc' = "rb_ret" /\ UNCHANGED <<retState, retErr>>
  /\ UNCHANGED <<op, ctxErr, ctx0, state0, signed, targetSlot, i, blk, applied, loadVars>>

\* Line 74.
RbReturn ==
  /\ \/ pc = "rb_tail" /\ ~SkipSlotsAtEnd(state, targetSlot)
     \/ pc = "rb_ret"
  /\ retState' = state /\ retErr' = NoErr /\ pc' = "done"
  /\ UNCHANGED <<op, ctxErr, ctx0, state, state0, signed, targetSlot, i, blk, calls, applied, loadVars>>

\* ReplayProcessSlots is invoked by the caller, and runs.
RpsCall ==
  /\ pc = "idle"
  /\ \E st \in {NilState} \cup {MkState(s) : s \in Slots}, t \in Slots :
       /\ state' = st /\ state0' = st /\ targetSlot' = t
  /\ op' = "ReplayProcessSlots" /\ ctx0' = ctxErr
  /\ pc' = "rps"
  /\ UNCHANGED <<ctxErr, signed, i, blk, calls, applied, retState, retErr, loadVars>>

RpsRun ==
  /\ pc = "rps"
  /\ \E r \in ReplayProcessSlots(ctxErr, state, targetSlot) :
       /\ calls' = calls \o r.calls
       /\ state' = r.state
       /\ retState' = r.state /\ retErr' = r.err
  /\ pc' = "done"
  /\ UNCHANGED <<op, ctxErr, ctx0, state0, signed, targetSlot, i, blk, applied, loadVars>>

\* ---------------------------------------------------------- the block store
\* The blocks the node has stored: slot and parent root of the block with
\* root r.  Root 0 is the root of a block the store does not hold.
\*   1@1 <- 2@2 <- 4@3, 6@3      3@2 <- 5@3      1@1 <- 3@2, 7@3
Tree == <<[slot |-> 1, parentRoot |-> 0],
          [slot |-> 2, parentRoot |-> 1],
          [slot |-> 2, parentRoot |-> 1],
          [slot |-> 3, parentRoot |-> 2],
          [slot |-> 3, parentRoot |-> 3],
          [slot |-> 3, parentRoot |-> 2],
          [slot |-> 3, parentRoot |-> 1]>>

Roots == 1 .. Len(Tree)
StoredBlock(r) == MkBlock(Tree[r].slot, Tree[r].parentRoot, r)
TreeSlots == {Tree[r].slot : r \in Roots}

\* The store marks these roots finalized.
Finalized == {1, 2, 4}
IsFinalizedBlock(r) == r \in Finalized

\* beaconDB.Blocks with a slot filter: the roots of stored blocks whose slot
\* is in the range, each once, in the order the store yields them.
Batches(lo, hi) ==
  LET InRange == {r \in Roots : lo <= Tree[r].slot /\ Tree[r].slot <= hi} IN
  {b \in UNION {[1 .. n -> InRange] : n \in 0 .. MaxBatch} :
     \A x, y \in DOMAIN b : x # y => b[x] # b[y]}

\* --------------------------------------------------------------- loadBlocks
\* Line 102: the condition of the narrowing loop.
NarrowCond(bs, rs, len, end) ==
  /\ len >= 3
  /\ At(bs, len - 1).slot = At(bs, len - 2).slot
  /\ At(rs, len - 1) # end

\* Variant of NarrowBody: the look-ahead of lines 107-110 is missing.
NarrowBody_NoLookahead(rs, len, end) == [length |-> len - 1, brk |-> FALSE]

\* Lines 106-110: the body of the narrowing loop; the new length and whether
\* the loop is left by break.
NarrowBody(rs, len, end) ==
  IF At(rs, (len - 1) - 2) = end
  THEN [length |-> len - 2, brk |-> TRUE]
  ELSE [length |-> len - 1, brk |-> FALSE]

\* Variant: line 124 takes every candidate.
IsParent_Any(b, root) == TRUE

\* Line 124: the candidate is the parent of the last block taken.
IsParent(b, root) == b.parentRoot = root

\* loadBlocks is invoked.
LbCall ==
  /\ pc = "idle"
  /\ \E lo \in TreeSlots, hi \in TreeSlots, r \in Roots \cup {0} :
       startSlot' = lo /\ endSlot' = hi /\ endBlockRoot' = r
  /\ op' = "loadBlocks" /\ ctx0' = ctxErr
  /\ pc' = "lb_range"
  /\ UNCHANGED <<ctxErr, state, state0, signed, targetSlot, i, blk, calls, applied,
                 retState, retErr, blocks, blockRoots, length, filteredBlocks, retBlocks>>

\* A load function returns (nil, err).
LoadFail(err) ==
  /\ retBlocks' = NilBlocks /\ retErr' = err /\ pc' = "done"

\* Line 81.
LbInvalidRange ==
  /\ pc = "lb_range" /\ startSlot > endSlot
  /\ LoadFail(ErrInvalidRange)
  /\ UNCHANGED <<op, ctxErr, ctx0, state, state0, signed, targetSlot, i, blk, calls, applied,
                 retState, startSlot, endSlot, endBlockRoot, blocks, blockRoots, length,
                 filteredBlocks>>

\* Line 85: the store answers the query.
LbQuery ==
  /\ pc = "lb_range" /\ startSlot <= endSlot
  /\ \E b \in Batches(startSlot, endSlot) :
       /\ blocks' = [k \in DOMAIN b |-> StoredBlock(b[k])]
       /\ \/ blockRoots' = b
          \/ Len(b) > 0 /\ blockRoots' = SubSeq(b, 1, Len(b) - 1)
  /\ pc' = "lb_len"
  /\ UNCHANGED <<op, ctxErr, ctx0, state, state0, signed, targetSlot, i, blk, calls, applied,
                 retState, retErr, startSlot, endSlot, endBlockRoot, length, filteredBlocks,
                 retBlocks>>

\* Line 86: the store fails.
LbQueryErr ==
  /\ pc = "lb_range" /\ startSlot <= endSlot
  /\ LoadFail(ErrDB)
  /\ UNCHANGED <<op, ctxErr, ctx0, state, state0, signed, targetSlot, i, blk, calls, applied,
                 retState, startSlot, endSlot, endBlockRoot, blocks, blockRoots, length,
                 filteredBlocks>>

\* Line 90.
LbLengthMismatch ==
  /\ pc = "lb_len" /\ Len(blocks) # Len(blockRoots)
  /\ LoadFail(ErrLength)
  /\ UNCHANGED <<op, ctxErr, ctx0, state, state0, signed, targetSlot, i, blk, calls, applied,
                 retState, startSlot, endSlot, endBlockRoot, blocks, blockRoots, length,
                 filteredBlocks>>

\* Line 95: nothing to load, return nil, nil.
LbEmpty ==
  /\ pc = "lb_len" /\ Len(blocks) = Len(blockRoots) /\ Len(blocks) = 0
  /\ length' = 0
  /\ retBlocks' = NilBlocks /\ retErr' = NoErr /\ pc' = "done"
  /\ UNCHANGED <<op, ctxErr, ctx0, state, state0, signed, targetSlot, i, blk, calls, applied,
                 retState, startSlot, endSlot, endBlockRoot, blocks, blockRoots,
                 filteredBlocks>>

\* Line 94.
LbLength ==
  /\ pc = "lb_len" /\ Len(blocks) = Len(blockRoots) /\ Len(blocks) # 0
  /\ length' = Len(blocks)
  /\ pc' = "lb_narrow"
  /\ UNCHANGED <<op, ctxErr, ctx0, state, state0, signed, targetSlot, i, blk, calls, applied,
                 retState, retErr, startSlot, endSlot, endBlockRoot, blocks, blockRoots,
                 filteredBlocks, retBlocks>>

\* Line 103: cancelled inside the narrowing loop.
LbNarrowCancelled ==
  /\ pc = "lb_narrow" /\ NarrowCond(blocks, blockRoots, length, endBlockRoot)
  /\ ctxErr
  /\ LoadFail(ErrCancelled)
  /\ UNCHANGED <<op, ctxErr, ctx0, state, state0, signed, targetSlot, i, blk, calls, applied,
                 retState, startSlot, endSlot, endBlockRoot, blocks, blockRoots, length,
                 filteredBlocks>>

\* Lines 106-110: one iteration of the narrowing loop.
LbNarrow ==
  /\ pc = "lb_narrow" /\ NarrowCond(blocks, blockRoots, length, endBlockRoot)
  /\ ~ctxErr
  /\ LET n == NarrowBody(blockRoots, length, endBlockRoot) IN
       /\ length' = n.length
       /\ pc' = IF n.brk THEN "lb_check" ELSE "lb_narrow"
  /\ UNCHANGED <<op, ctxErr, ctx0, state, state0, signed, targetSlot, i, blk, calls, applied,
                 retState, retErr, startSlot, endSlot, endBlockRoot, blocks, blockRoots,
                 filteredBlocks, retBlocks>>

\* Line 102: the loop condition fails.
LbNarrowExit ==
  /\ pc = "lb_narrow" /\ ~NarrowCond(blocks, blockRoots, length, endBlockRoot)
  /\ pc' = "lb_check"
  /\ UNCHANGED <<op, ctxErr, ctx0, state, state0, signed, targetSlot, i, blk, calls, applied,
                 retState, retErr, loadVars>>

\* Line 113.
LbEndRootMismatch ==
  /\ pc = "lb_check" /\ At(blockRoots, length - 1) # endBlockRoot
  /\ LoadFail(ErrEndRoot)
  /\ UNCHANGED <<op, ctxErr, ctx0, state, state0, signed, targetSlot, i, blk, calls, applied,
                 retState, startSlot, endSlot, endBlockRoot, blocks, blockRoots, length,
                 filteredBlocks>>

\* Variant of LbSeed: the end root check of line 113 is dropped.
LbSeed_Unchecked ==
  /\ pc = "lb_check"
  /\ filteredBlocks' = <<At(blocks, length - 1)>>
  /\ i' = length - 2
  /\ pc' = IF length - 2 >= 0 THEN "lb_walk" ELSE "lb_ret"
  /\ UNCHANGED <<op, ctxErr, ctx0, state, state0, signed, targetSlot, blk, calls, applied,
                 retState, retErr, startSlot, endSlot, endBlockRoot, blocks, blockRoots,
                 length, retBlocks>>

\* Variant of LbSeed: the walk starts one entry too low (line 119).
LbSeed_SkipOne ==
  /\ pc = "lb_check" /\ At(blockRoots, length - 1) = endBlockRoot
  /\ filteredBlocks' = <<At(blocks, length - 1)>>
  /\ i' = length - 3
  /\ pc' = IF length - 3 >= 0 THEN "lb_walk" ELSE "lb_ret"
  /\ UNCHANGED <<op, ctxErr, ctx0, state, state0, signed, targetSlot, blk, calls, applied,
                 retState, retErr, startSlot, endSlot, endBlockRoot, blocks, blockRoots,
                 length, retBlocks>>

\* Lines 117-119: the list starts with the end block.
LbSeed ==
  /\ pc = "lb_check" /\ At(blockRoots, length - 1) = endBlockRoot
  /\ filteredBlocks' = <<At(blocks, length - 1)>>
  /\ i' = length - 2
  /\ pc' = IF length - 2 >= 0 THEN "lb_walk" ELSE "lb_ret"
  /\ UNCHANGED <<op, ctxErr, ctx0, state, state0, signed, targetSlot, blk, calls, applied,
                 retState, retErr, startSlot, endSlot, endBlockRoot, blocks, blockRoots,
                 length, retBlocks>>

\* Line 120: cancelled inside the parent walk.
LbWalkCancelled ==
  /\ pc = "lb_walk" /\ ctxErr
  /\ LoadFail(ErrCancelled)
  /\ UNCHANGED <<op, ctxErr, ctx0, state, state0, signed, targetSlot, i, blk, calls, applied,
                 retState, startSlot, endSlot, endBlockRoot, blocks, blockRoots, length,
                 filteredBlocks>>

\* Variant of LbWalk: the loop counter of line 119 is not decremented.
LbWalk_NoDecrement ==
  /\ pc = "lb_walk" /\ ~ctxErr
  /\ LET b == At(filteredBlocks, Len(filteredBlocks) - 1) IN
       filteredBlocks' = IF IsParent(b, At(blockRoots, i))
                         THEN Append(filteredBlocks, At(blocks, i))
                         ELSE filteredBlocks
  /\ i' = i
  /\ pc' = IF i - 1 >= 0 THEN "lb_walk" ELSE "lb_ret"
  /\ UNCHANGED <<op, ctxErr, ctx0, state, state0, signed, targetSlot, blk, calls, applied,
                 retState, retErr, startSlot, endSlot, endBlockRoot, blocks, blockRoots,
                 length, retBlocks>>

\* Lines 123-127: one iteration of the parent walk.
LbWalk ==
  /\ pc = "lb_walk" /\ ~ctxErr
  /\ LET b == At(filteredBlocks, Len(filteredBlocks) - 1) IN
       filteredBlocks' = IF IsParent(b, At(blockRoots, i))
                         THEN Append(filteredBlocks, At(blocks, i))
                         ELSE filteredBlocks
  /\ i' = i - 1
  /\ pc' = IF i - 1 >= 0 THEN "lb_walk" ELSE "lb_ret"
  /\ UNCHANGED <<op, ctxErr, ctx0, state, state0, signed, targetSlot, blk, calls, applied,
                 retState, retErr, startSlot, endSlot, endBlockRoot, blocks, blockRoots,
                 length, retBlocks>>

\* Line 130.
LbReturn ==
  /\ pc = "lb_ret"
  /\ retBlocks' = MkBlocks(filteredBlocks) /\ retErr' = NoErr /\ pc' = "done"
  /\ UNCHANGED <<op, ctxErr, ctx0, state, state0, signed, targetSlot, i, blk, calls, applied,
                 retState, startSlot, endSlot, endBlockRoot, blocks, blockRoots, length,
                 filteredBlocks>>

\* ------------------------------------------------------ loadFinalizedBlocks
LfCall ==
  /\ pc = "idle"
  /\ \E lo \in TreeSlots, hi \in TreeSlots :
       startSlot' = lo /\ endSlot' = hi
  /\ op' = "loadFinalizedBlocks" /\ ctx0' = ctxErr
  /\ pc' = "lf_query"
  /\ UNCHANGED <<ctxErr, state, state0, signed, targetSlot, i, blk, calls, applied,
                 retState, retErr, endBlockRoot, blocks, blockRoots, length,
                 filteredBlocks, retBlocks>>

\* Line 196: the store answers the query.
LfQuery ==
  /\ pc = "lf_query"
  /\ \E b \in Batches(startSlot, endSlot) :
       /\ blocks' = [k \in DOMAIN b |-> StoredBlock(b[k])]
       /\ \/ blockRoots' = b
          \/ Len(b) > 0 /\ blockRoots' = SubSeq(b, 1, Len(b) - 1)
  /\ pc' = "lf_len"
  /\ UNCHANGED <<op, ctxErr, ctx0, state, state0, signed, targetSlot, i, blk, calls, applied,
                 retState, retErr, startSlot, endSlot, endBlockRoot, length, filteredBlocks,
                 retBlocks>>

\* Line 197: the store fails.
LfQueryErr ==
  /\ pc = "lf_query"
  /\ LoadFail(ErrDB)
  /\ UNCHANGED <<op, ctxErr, ctx0, state, state0, signed, targetSlot, i, blk, calls, applied,
                 retState, startSlot, endSlot, endBlockRoot, blocks, blockRoots, length,
                 filteredBlocks>>

\* Line 200.
LfLengthMismatch ==
  /\ pc = "lf_len" /\ Len(blocks) # Len(blockRoots)
  /\ LoadFail(ErrLength)
  /\ UNCHANGED <<op, ctxErr, ctx0, state, state0, signed, targetSlot, i, blk, calls, applied,
                 retState, startSlot, endSlot, endBlockRoot, blocks, blockRoots, length,
                 filteredBlocks>>

\* Lines 203-204: the list starts empty, the loop at the last index.
LfStart ==
  /\ pc = "lf_len" /\ Len(blocks) = Len(blockRoots)
  /\ filteredBlocks' = <<>>
  /\ i' = Len(blocks) - 1
  /\ pc' = IF Len(blocks) - 1 >= 0 THEN "lf_loop" ELSE "lf_ret"
  /\ UNCHANGED <<op, ctxErr, ctx0, state, state0, signed, targetSlot, blk, calls, applied,
                 retState, retErr, startSlot, endSlot, endBlockRoot, blocks, blockRoots,
                 length, retBlocks>>

\* Lines 205-207: one iteration of the finalized filter.
LfLoop ==
  /\ pc = "lf_loop"
  /\ filteredBlocks' = IF IsFinalizedBlock(At(blockRoots, i))
                       THEN Append(filteredBlocks, At(blocks, i))
                       ELSE filteredBlocks
  /\ i' = i - 1
  /\ pc' = IF i - 1 >= 0 THEN "lf_loop" ELSE "lf_ret"
  /\ UNCHANGED <<op, ctxErr, ctx0, state, state0, signed, targetSlot, blk, calls, applied,
                 retState, retErr, startSlot, endSlot, endBlockRoot, blocks, blockRoots,
                 length, retBlocks>>

\* Line 209.
LfReturn ==
  /\ pc = "lf_ret"
  /\ retBlocks' = MkBlocks(filteredBlocks) /\ retErr' = NoErr /\ pc' = "done"
  /\ UNCHANGED <<op, ctxErr, ctx0, state, state0, signed, targetSlot, i, blk, calls, applied,
                 retState, startSlot, endSlot, endBlockRoot, blocks, blockRoots, length,
                 filteredBlocks>>

Next ==
  \/ Cancel
  \/ RbCall \/ RbCancelled \/ RbBreak \/ RbSkip \/ RbApply \/ RbTail \/ RbReturn
  \/ ExCall \/ ExCancelled \/ ExNilBlock \/ ExSlots \/ ExBlock
  \/ RpsCall \/ RpsRun
  \/ LbCall \/ LbInvalidRange \/ LbQuery \/ LbQueryErr \/ LbLengthMismatch
  \/ LbEmpty \/ LbLength \/ LbNarrowCancelled \/ LbNarrow \/ LbNarrowExit
  \/ LbEndRootMismatch \/ LbSeed \/ LbWalkCancelled \/ LbWalk \/ LbReturn
  \/ LfCall \/ LfQuery \/ LfQueryErr \/ LfLengthMismatch \/ LfStart \/ LfLoop
  \/ LfReturn

Spec == Init /\ [][Next]_vars

\* The state-replay functions alone.
NextReplay ==
  \/ Cancel
  \/ RbCall \/ RbCancelled \/ RbBreak \/ RbSkip \/ RbApply \/ RbTail \/ RbReturn
  \/ ExCall \/ ExCancelled \/ ExNilBlock \/ ExSlots \/ ExBlock
  \/ RpsCall \/ RpsRun

SpecReplay == Init /\ [][NextReplay]_vars

\* The block-loading functions alone.
NextLoad ==
  \/ Cancel
  \/ LbCall \/ LbInvalidRange \/ LbQuery \/ LbQueryErr \/ LbLengthMismatch
  \/ LbEmpty \/ LbLength \/ LbNarrowCancelled \/ LbNarrow \/ LbNarrowExit
  \/ LbEndRootMismatch \/ LbSeed \/ LbWalkCancelled \/ LbWalk \/ LbReturn
  \/ LfCall \/ LfQuery \/ LfQueryErr \/ LfLengthMismatch \/ LfStart \/ LfLoop
  \/ LfReturn

SpecLoad == Init /\ [][NextLoad]_vars

\* ================================================================ properties
Done == pc = "done"
Range(s) == {s[k] : k \in DOMAIN s}
SlotsOf(s) == [k \in DOMAIN s |-> s[k].slot]
RootsOf(s) == [k \in DOMAIN s |-> s[k].root]
StrictlyDescending(s) == \A k \in 1 .. Len(s) - 1 : s[k] > s[k + 1]
NonDecreasing(s) == \A k \in 1 .. Len(s) - 1 : s[k] <= s[k + 1]
StrictlyIncreasing(s) == \A k \in 1 .. Len(s) - 1 : s[k] < s[k + 1]
MaxOf(S) == CHOOSE m \in S : \A x \in S : x <= m

\* What replayBlocks returned, in the shape of the outcomes of replayBlocks(...).
Outcome == [state |-> retState, err |-> retErr, calls |-> calls, applied |-> applied]

\* A run of replayBlocks under an unchanged context ends in one of the outcomes
\* of the function taken as a whole.
ReplayConforms ==
  (op = "replayBlocks" /\ Done /\ ctx0 = ctxErr)
    => Outcome \in replayBlocks(ctx0, state0, signed, targetSlot)

\* loadBlocks ran to its return on a batch with as many roots as blocks.
LoadedBatch ==
  /\ op = "loadBlocks" /\ Done
  /\ startSlot <= endSlot
  /\ retErr # ErrDB
  /\ Len(blocks) = Len(blockRoots)

\* A returned list is parent-linked and starts at the end block root.
LinkedFrom(l, root) ==
  /\ Len(l) > 0
  /\ l[1].root = root
  /\ \A k \in 1 .. Len(l) - 1 : l[k].parentRoot = l[k + 1].root

\* C1: for every range with start <= end and every batch (as many roots as
\* blocks) that holds the end block root, loadBlocks succeeds and returns a
\* parent-linked list whose first element has the end block root.  Stated for
\* the batches the store yields in ascending slot order with the end block at
\* the newest slot (the case the comment at lines 99-101 documents), under a
\* context that is never cancelled.
C1_LoadSucceeds ==
  (/\ LoadedBatch /\ ~ctxErr
   /\ endBlockRoot \in Range(blockRoots)
   /\ NonDecreasing(SlotsOf(blocks))
   /\ Tree[endBlockRoot].slot = MaxOf(Range(SlotsOf(blocks))))
    => (/\ retErr = NoErr /\ ~retBlocks.nil
        /\ LinkedFrom(retBlocks.list, endBlockRoot))

\* The end block and its ancestors by parent root, among the stored blocks.
RECURSIVE ChainOf(_)
ChainOf(r) == IF r \in Roots THEN {r} \cup ChainOf(Tree[r].parentRoot) ELSE {}

\* C2: every block loadBlocks takes, and every block it returns, is the end
\* block or an ancestor of it by parent root, wherever the blocks of sibling
\* forks stand in the batch.
C2_OnlyAncestors ==
  op = "loadBlocks" =>
    /\ \A k \in DOMAIN filteredBlocks : filteredBlocks[k].root \in ChainOf(endBlockRoot)
    /\ \A k \in DOMAIN retBlocks.list : retBlocks.list[k].root \in ChainOf(endBlockRoot)

\* A batch with a sibling-fork block (root 3) between blocks of the chain
\* 4 -> 2 -> 1 was loaded, and the chain alone came back.
C2_Witness ==
  /\ LoadedBatch /\ retErr = NoErr
  /\ blockRoots = <<1, 3, 2, 4>>
  /\ RootsOf(retBlocks.list) = <<4, 2, 1>>

\* The slots of the blocks handed to executeStateTransitionStateGen, in order.
AppliedSlots == [k \in DOMAIN applied |-> At(signed, applied[k]).slot]
AfterLoop == op = "replayBlocks" /\ pc \in {"rb_tail", "rb_ret", "done"}

\* C3: replayBlocks hands blocks to executeStateTransitionStateGen from the
\* last index to the first, the slots of the blocks handed over increase
\* strictly, and once the loop is left (where the trailing slot advance is)
\* no block is handed over any more.
C3_Step ==
  /\ StrictlyDescending(applied')
  /\ StrictlyIncreasing(AppliedSlots')
  /\ AfterLoop => (AfterLoop' /\ applied' = applied)
  /\ (op = "replayBlocks" /\ pc = "rb_tail" /\ calls' # calls)
       => (/\ Len(calls') = Len(calls) + 1
           /\ calls'[Len(calls')].fn = "ProcessSlotsCore"
           /\ calls'[Len(calls')].to = targetSlot)

\* C3: every step of replayBlocks keeps the order of application.
C3_ApplyOrder == [][C3_Step]_vars

\* State at slot 0, blocks at slots <<2, 1>>, target 3: block 1, then block 2,
\* then the advance from 2 to 3.
C3_Witness ==
  /\ op = "replayBlocks" /\ Done /\ retErr = NoErr
  /\ StrictlyDescending(SlotsOf(signed))
  /\ Len(applied) >= 2
  /\ calls[Len(calls)] = [fn |-> "ProcessSlotsCore", from |-> 2, to |-> 3, ok |-> TRUE]
  /\ retState.slot = targetSlot

\* C4: no step of replayBlocks, executeStateTransitionStateGen or
\* ReplayProcessSlots lowers the slot of the in-flight state.
C4_Step == (~state.nil /\ ~state'.nil) => state'.slot >= state.slot

\* C4: the slot of the in-flight state never decreases in any step.
C4_SlotNeverDecreases == [][C4_Step]_vars

C4_Witness ==
  /\ op = "replayBlocks" /\ Done /\ retErr = NoErr
  /\ Len(applied) >= 1 /\ Len(applied) < Len(signed)
  /\ retState.slot > state0.slot

\* C5: a block is handed to executeStateTransitionStateGen only when the
\* state's slot is strictly below the block's slot; at the head of an
\* iteration whose block is at or before the state's slot nothing is applied
\* and no primitive is invoked.
C5_Step ==
  /\ applied' # applied =>
       (/\ pc = "rb_loop"
        /\ applied' = Append(applied, i)
        /\ state.slot < At(signed, i).slot)
  /\ (op = "replayBlocks" /\ pc = "rb_loop" /\ At(signed, i).slot <= state.slot)
       => (applied' = applied /\ calls' = calls /\ state' = state)

\* C5: every step applies a block only to a state strictly before it.
C5_AppliedOnlyAhead == [][C5_Step]_vars

\* A list that is not sorted: a block was applied and a later one skipped.
C5_Witness ==
  /\ op = "replayBlocks" /\ pc = "rb_loop"
  /\ applied # <<>>
  /\ At(signed, i).slot <= state.slot
  /\ state.slot < targetSlot
  /\ ~StrictlyDescending(SlotsOf(signed))

BetweenBlocks == op = "replayBlocks" /\ pc \in {"rb_loop", "rb_tail", "rb_ret"}

\* C6: once the state's slot is at or past the target, replayBlocks applies
\* no block and advances no slot; and when the state passed in is already at
\* or past the target, no primitive is invoked, a returned state is the state
\* passed in, and the only error possible is the cancellation seen at the
\* head of the loop.
C6_Step ==
  /\ (BetweenBlocks /\ state.slot >= targetSlot)
       => (/\ calls' = calls /\ applied' = applied /\ state' = state
           /\ pc' \in {"rb_loop", "rb_tail", "rb_ret", "done"}
           /\ pc' = "rb_loop" => pc = "rb_loop" /\ i' = i)
  /\ (op' = "replayBlocks" /\ pc' = "done" /\ state0'.slot >= targetSlot')
       => (/\ calls' = <<>> /\ applied' = <<>>
           /\ retErr' = NoErr => retState' = state0'
           /\ retErr' # NoErr => (retErr' = ErrCancelled /\ ctxErr' /\ signed' # <<>>)
           /\ ~ctxErr' => retErr' = NoErr)

\* C6: every step at or past the target leaves state and calls alone.
C6_StopAtTarget == [][C6_Step]_vars

\* State at slot 3, blocks at slots <<2, 1>>, target 3: the state comes back.
C6_Witness ==
  /\ op = "replayBlocks" /\ Done /\ retErr = NoErr
  /\ state0.slot >= targetSlot
  /\ Len(signed) = 2 /\ StrictlyDescending(SlotsOf(signed))
  /\ retState = state0 /\ calls = <<>>

\* The list without its k oldest (last) blocks.
DropOldest(sg, k) == SubSeq(sg, 1, Len(sg) - k)
\* The k oldest blocks are all at or before the state's slot.
Redundant(sg, st, k) == \A j \in Len(sg) - k + 1 .. Len(sg) : sg[j].slot <= st.slot

\* What the caller sees of an outcome: applied blocks, final state or error.
Seen(o) == [state |-> o.state, err |-> o.err, applied |-> o.applied]

WithoutApplied(o) == [state |-> o.state, err |-> o.err, calls |-> o.calls]

\* C8: with an empty list and a target past the state's slot, replayBlocks has
\* exactly the results of ReplayProcessSlots(state, target), invokes the
\* slot-advance primitive once and applies no block.
C8_EmptyIsAdvance ==
  (op = "replayBlocks" /\ Done /\ signed = <<>> /\ targetSlot > state0.slot) =>
    /\ \A c \in BOOLEAN :
         {WithoutApplied(o) : o \in replayBlocks(c, state0, signed, targetSlot)}
           = ReplayProcessSlots(c, state0, targetSlot)
    /\ WithoutApplied(Outcome) \in
         ReplayProcessSlots(FALSE, state0, targetSlot)
           \cup ReplayProcessSlots(ctxErr, state0, targetSlot)
    /\ applied = <<>>
    /\ Len(calls) = 1 /\ calls[1].fn = "ProcessSlotsCore"

C8_Witness ==
  /\ op = "replayBlocks" /\ Done /\ signed = <<>>
  /\ state0.slot = 1 /\ targetSlot = 2
  /\ retErr = NoErr /\ retState.slot = 2

\* C9: whenever replayBlocks, executeStateTransitionStateGen, loadBlocks or
\* loadFinalizedBlocks returns an error, and whenever ReplayProcessSlots
\* returns one of its own errors, the state or list returned with it is nil.
C9_NoPartialResult ==
  (Done /\ retErr # NoErr) =>
    /\ op \in {"replayBlocks", "executeStateTransitionStateGen"} => retState = NilState
    /\ (op = "ReplayProcessSlots" /\ retErr \in {ErrUnknownState, ErrSlotRegression})
         => retState = NilState
    /\ op \in {"loadBlocks", "loadFinalizedBlocks"} => retBlocks = NilBlocks

\* Cancelled after a block was applied: the advanced state is not returned.
C9_Witness ==
  /\ op = "replayBlocks" /\ Done /\ retErr = ErrCancelled
  /\ applied # <<>> /\ ~state.nil /\ state.slot > state0.slot
  /\ retState = NilState

\* C10: when the context is cancelled at the head of an iteration of the block
\* loop, the next step of replayBlocks returns the cancellation error: no
\* block is applied, no primitive invoked, whatever the target and the block.
C10_Step ==
  (op = "replayBlocks" /\ pc = "rb_loop" /\ ctxErr) =>
    (/\ pc' = "done" /\ retErr' = ErrCancelled /\ retState' = NilState
     /\ calls' = calls /\ applied' = applied)

\* C10: every step from a cancelled loop head returns the cancellation error.
C10_CancelFirst == [][C10_Step]_vars

\* Cancelled at the head of a later iteration, with the target already
\* reached: the cancellation error still comes back.
C10_Witness ==
  /\ op = "replayBlocks" /\ Done /\ retErr = ErrCancelled
  /\ applied # <<>> /\ ~state.nil /\ state.slot >= targetSlot
  /\ i >= 0

\* The context is cancelled at the head of an iteration of one of the loops:
\* the block loop of replayBlocks, the narrowing loop and the parent walk of
\* loadBlocks, the finalized filter of loadFinalizedBlocks.
CancelledAtLoopHead ==
  /\ ctxErr
  /\ \/ pc = "rb_loop"
     \/ pc = "lb_narrow" /\ NarrowCond(blocks, blockRoots, length, endBlockRoot)
     \/ pc = "lb_walk"
     \/ pc = "lf_loop"

C11_Step ==
  CancelledAtLoopHead =>
    (/\ pc' = "done" /\ retErr' = ErrCancelled
     /\ retState' = NilState /\ retBlocks' = NilBlocks
     /\ filteredBlocks' = filteredBlocks /\ length' = length
     /\ calls' = calls /\ applied' = applied)

\* C11: once the context is cancelled, every loop (the block loop of
\* replayBlocks, the two scans of loadBlocks, the finalized filter of
\* loadFinalizedBlocks) processes no further element and the function fails
\* with the cancellation error.
C11_EveryLoopObservesCancel == [][C11_Step]_vars

\* loadBlocks ran to its return on a batch that is not empty and holds no
\* root equal to the end block root.
EndRootAbsent ==
  /\ LoadedBatch
  /\ Len(blocks) > 0
  /\ endBlockRoot \notin Range(blockRoots)

\* loadBlocks returned an empty list and no error.
EmptyWithoutError ==
  /\ op = "loadBlocks" /\ Done
  /\ retErr = NoErr
  /\ retBlocks.list = <<>>

\* C12 as written: for every batch that is not empty (as many roots as
\* blocks) and holds no root equal to the end block root, loadBlocks fails
\* with "end block roots don't match" and returns no list; only an empty
\* batch gives an empty list without an error.
C12_EndRootNotFound ==
  /\ EndRootAbsent => (retErr = ErrEndRoot /\ retBlocks = NilBlocks)
  /\ EmptyWithoutError => Len(blocks) = 0

\* C12, amended: on such a batch loadBlocks always fails and returns no list;
\* the error is "end block roots don't match" unless the context is cancelled
\* while the narrowing loop still has an iteration to run, where it is the
\* cancellation error.  Only an empty batch gives an empty list without error.
C12_EndRootNotFoundOrCancelled ==
  /\ EndRootAbsent =>
       /\ retBlocks = NilBlocks
       /\ retErr \in {ErrEndRoot, ErrCancelled}
       /\ retErr = ErrCancelled => ctxErr
       /\ ~ctxErr => retErr = ErrEndRoot
       /\ ~NarrowCond(blocks, blockRoots, Len(blocks), endBlockRoot) => retErr = ErrEndRoot
  /\ EmptyWithoutError => Len(blocks) = 0

\* The end root is absent from a batch the narrowing loop shortened, and the
\* load failed with "end block roots don't match".
C12_Witness ==
  /\ EndRootAbsent
  /\ length < Len(blocks)
  /\ retErr = ErrEndRoot

\* The batch is in ascending slot order.
AscendingBatch == NonDecreasing(SlotsOf(blocks))

\* Every block of the batch has a parent at a strictly smaller slot.
ParentsOlder ==
  \A k \in DOMAIN blocks :
    blocks[k].parentRoot \in Roots => StoredBlock(blocks[k].parentRoot).slot < blocks[k].slot

\* C13: when the store returns the batch in ascending slot order and every
\* block's parent has a strictly smaller slot, any list loadBlocks returns is
\* strictly descending by slot.
C13_DescendingSegment ==
  (LoadedBatch /\ retErr = NoErr /\ AscendingBatch /\ ParentsOlder)
    => StrictlyDescending(SlotsOf(retBlocks.list))

\* An ascending batch with sibling forks was loaded and a list of three
\* blocks came back.
C13_Witness ==
  /\ LoadedBatch /\ retErr = NoErr /\ AscendingBatch /\ ParentsOlder
  /\ Len(blockRoots) = 4
  /\ Len(retBlocks.list) = 3

\* C14: for every state that is not nil and every target below the state's
\* slot, ReplayProcessSlots fails with the slot regression error without
\* calling ProcessSlotsCore; a nil state fails with the unknown state error
\* whatever the target is, so before the slots are compared.
C14_RegressionRejected ==
  (op = "ReplayProcessSlots" /\ Done) =>
    /\ (~state0.nil /\ targetSlot < state0.slot) =>
         (retErr = ErrSlotRegression /\ retState = NilState /\ calls = <<>>)
    /\ state0.nil =>
         (retErr = ErrUnknownState /\ retState = NilState /\ calls = <<>>)

\* ReplayProcessSlots was asked to bring a state at slot 3 back to slot 1.
C14_Witness ==
  /\ op = "ReplayProcessSlots" /\ Done
  /\ ~state0.nil /\ state0.slot = 3 /\ targetSlot = 1
  /\ retErr = ErrSlotRegression

\* replayBlocks returned a state.
ReplaySucceeded == op = "replayBlocks" /\ Done /\ retErr = NoErr

\* The state passed in and every block of the list are at or before the target.
AllWithinTarget ==
  /\ state0.slot <= targetSlot
  /\ \A k \in DOMAIN signed : signed[k].slot <= targetSlot

\* A block past the target was handed to executeStateTransitionStateGen.
AppliedPastTarget == \E k \in DOMAIN applied : AppliedSlots[k] > targetSlot

\* C15: on every successful replayBlocks call where the state passed in is at
\* or before the target: when every block of the list is at or before the
\* target too, the state returned is at the target exactly; and the slot
\* returned exceeds the target only if the slot of an applied block exceeds it
\* (the state is then at the slot of the last applied block).
C15_ExactTarget ==
  (ReplaySucceeded /\ state0.slot <= targetSlot) =>
    /\ AllWithinTarget => retState.slot = targetSlot
    /\ retState.slot > targetSlot =>
         (AppliedPastTarget /\ retState.slot = AppliedSlots[Len(applied)])
    /\ retState.slot >= targetSlot

\* State at slot 0, blocks at slots 2 and 1, target 4: both blocks are
\* applied, the trailing slots are advanced and the state comes back at 4.
C15_Witness ==
  /\ ReplaySucceeded /\ AllWithinTarget
  /\ state0.slot = 0 /\ targetSlot = 4
  /\ AppliedSlots = <<1, 2>>
  /\ retState.slot = 4

\* loadBlocks returned a list: the end block was found at index length - 1 and
\* the narrowing loop dropped the entries at the indices length .. len - 1.
LoadSucceeded == LoadedBatch /\ retErr = NoErr /\ Len(blocks) > 0
DroppedIndices == length .. Len(blocks) - 1

\* C16: whenever loadBlocks succeeds, every entry of the batch that the
\* narrowing loop dropped (every index above the position of the end block)
\* has the same slot as the end block the loop settled on.
C16_NarrowsWithinSlot ==
  LoadSucceeded =>
    \A k \in DroppedIndices : At(blocks, k).slot = At(blocks, length - 1).slot

\* The k newest entries of the batch share the newest slot and the end block
\* root is the root of one of them.
EndAmongSiblings(k) ==
  /\ k <= Len(blocks)
  /\ \A j \in Len(blocks) - k .. Len(blocks) - 1 :
       At(blocks, j).slot = At(blocks, Len(blocks) - 1).slot
  /\ \E j \in Len(blocks) - k .. Len(blocks) - 1 : At(blockRoots, j) = endBlockRoot

\* loadBlocks works on a batch (as many roots as blocks, roots pairwise
\* distinct) whose three or more newest entries are such siblings.
SiblingBatch ==
  /\ op = "loadBlocks"
  /\ Len(blocks) = Len(blockRoots)
  /\ \A x, y \in DOMAIN blockRoots : x # y => blockRoots[x] # blockRoots[y]
  /\ \E k \in 3 .. Len(blocks) : EndAmongSiblings(k)

\* C17: for a batch whose k >= 3 newest entries share the newest slot, with
\* pairwise distinct roots, and an end block root that is the root of one of
\* these siblings, the narrowing loop is left with length - 1 at the index of
\* that sibling, and loadBlocks does not fail with "end block roots don't
\* match": it returns a list starting at that sibling unless the context is
\* cancelled.
C17_SiblingFound ==
  SiblingBatch =>
    /\ pc \in {"lb_check", "lb_walk", "lb_ret"} => At(blockRoots, length - 1) = endBlockRoot
    /\ Done =>
         /\ retErr \in {NoErr, ErrCancelled}
         /\ retErr = ErrCancelled => ctxErr
         /\ retErr = NoErr =>
              /\ At(blockRoots, length - 1) = endBlockRoot
              /\ retBlocks.list[1].root = endBlockRoot

\* Four siblings at one slot, the end block first in the batch: the loop
\* narrows by three entries and the list starts at the end block.
C17_Witness ==
  /\ SiblingBatch /\ Done /\ retErr = NoErr
  /\ Len(blocks) = 4 /\ EndAmongSiblings(4)
  /\ At(blockRoots, 0) = endBlockRoot
  /\ length = 1
  /\ retBlocks.list[1].root = endBlockRoot

\* The positions of the calls of transition.ProcessBlockForStateRoot in the log.
BlockCalls == {k \in DOMAIN calls : calls[k].fn = "ProcessBlockForStateRoot"}

\* The call at position k was made on a state at the block's slot, right after
\* a successful slot advance to that slot or on a state that was there already.
AfterSlotAdvance(k) ==
  /\ calls[k].from = calls[k].to
  /\ \/ /\ k > 1
        /\ calls[k - 1].fn = "ProcessSlotsCore" /\ calls[k - 1].ok
        /\ calls[k - 1].to = calls[k].to
     \/ /\ k = 1
        /\ op = "executeStateTransitionStateGen"
        /\ ~state0.nil /\ state0.slot = blk.slot

\* The slot advance of line 155 cannot succeed: nil state, or state past the block.
AdvanceImpossible == state0.nil \/ state0.slot > blk.slot

\* C18: the block transition is invoked only after the slot advance to the
\* block's slot succeeded, so only on a state at the block's slot; when the
\* context is cancelled at entry, the block is nil or the slot advance fails,
\* the block transition is never invoked and the error is returned, the
\* failure of the slot advance wrapped as "could not process slot".
C18_BlockAfterSlots ==
  /\ \A k \in BlockCalls : AfterSlotAdvance(k)
  /\ pc = "ex_block" => (~state.nil /\ state.slot = blk.slot)
  /\ (op = "executeStateTransitionStateGen" /\ Done) =>
       /\ ctx0 => (retErr = ErrCancelled /\ calls = <<>>)
       /\ blk.nil => (retErr \in {ErrCancelled, ErrNilBlock} /\ calls = <<>>)
       /\ (blk.nil /\ ~ctxErr) => retErr = ErrNilBlock
       /\ retErr = ErrCancelled => (ctxErr /\ calls = <<>>)
       /\ (~blk.nil /\ ~ctxErr /\ AdvanceImpossible) =>
            /\ retErr = Wrap("could not process slot",
                             IF state0.nil THEN ErrUnknownState ELSE ErrSlotRegression)
            /\ calls = <<>>
       /\ (calls # <<>> /\ calls[1].fn = "ProcessSlotsCore" /\ ~calls[1].ok) =>
            /\ retErr \in {Wrap("could not process slot", ErrProcessSlots),
                           Wrap("could not process slot", ErrCancelled)}
            /\ Len(calls) = 1
       /\ (retErr # NoErr /\ Head(retErr) # "could not process block") => BlockCalls = {}
       /\ retErr # NoErr => retState = NilState

\* A state at slot 1 and a block at slot 3: the slots are advanced to 3, then
\* the block is applied to the state at slot 3.
C18_Witness ==
  /\ op = "executeStateTransitionStateGen" /\ Done /\ retErr = NoErr
  /\ state0.slot = 1 /\ blk.slot = 3
  /\ Len(calls) = 2 /\ BlockCalls = {2} /\ AfterSlotAdvance(2)
  /\ retState.slot = 3

\* The indices into blocks and blockRoots that the statement loadBlocks is at
\* reads: lines 102 and 107 in the narrowing loop (the operands of && are read
\* only when length >= 3; line 107 reads at length - 2 after the decrement),
\* line 113 and line 117 after it, lines 123-126 in the walk.
UsedIndices ==
  CASE pc = "lb_narrow" /\ length >= 3 ->
         {length - 1, length - 2}
           \cup (IF NarrowCond(blocks, blockRoots, length, endBlockRoot)
                 THEN {(length - 1) - 2} ELSE {})
    [] pc = "lb_check" -> {length - 1}
    [] pc = "lb_walk" -> {i}
    [] OTHER -> {}

IndexSafe ==
  /\ UsedIndices \subseteq 0 .. Len(blocks) - 1
  /\ UsedIndices \subseteq 0 .. Len(blockRoots) - 1
  /\ pc \in {"lb_narrow", "lb_check", "lb_walk", "lb_ret"} =>
       (1 <= length /\ length <= Len(blocks))
  /\ pc = "lb_walk" => (i <= length - 2 /\ Len(filteredBlocks) >= 1)

\* The statements of loadBlocks in program order.
LoadStage(p) ==
  CASE p = "lb_range" -> 1 [] p = "lb_len" -> 2 [] p = "lb_narrow" -> 3
    [] p = "lb_check" -> 4 [] p = "lb_walk" -> 5 [] p = "lb_ret" -> 6
    [] p = "done" -> 7 [] OTHER -> 0

\* A step of loadBlocks keeps the indices in range and makes progress: it
\* moves on in the program, or stays in a loop with a smaller length (the
\* narrowing loop) or a smaller i (the walk); the only other step is the
\* cancellation of the context, which happens once.
C19_Step ==
  (op = "loadBlocks" /\ op' = "loadBlocks") =>
    /\ IndexSafe'
    /\ pc' # pc => LoadStage(pc') > LoadStage(pc)
    /\ pc' = pc =>
         \/ ~ctxErr /\ ctxErr' /\ length' = length /\ i' = i
         \/ pc = "lb_narrow" /\ 1 <= length' /\ length' < length
         \/ pc = "lb_walk" /\ 0 <= i' /\ i' < i

\* C19: for every batch with as many roots as blocks and every end block
\* root, loadBlocks terminates, every index it uses (length - 1 and length - 2
\* in the narrowing loop, the look-ahead after the decrement, length - 1 in
\* the end root check, i in the walk) is within the batch, and the narrowed
\* length never drops below 1.
C19_IndicesInRange == [][C19_Step]_vars

\* A batch of four was narrowed down to its first entry and then returned.
C19_Witness ==
  /\ LoadedBatch /\ retErr = NoErr
  /\ Len(blocks) = 4 /\ length = 1
  /\ Len(retBlocks.list) = 1

\* The roots of the batch are pairwise distinct.
DistinctRoots == \A x, y \in DOMAIN blockRoots : x # y => blockRoots[x] # blockRoots[y]

\* The parent chain of root r inside the batch: r, its parent, and so on down
\* to the first ancestor that the batch does not hold.
RECURSIVE BatchChain(_)
BatchChain(r) ==
  IF r \in Range(blockRoots)
  THEN <<r>> \o BatchChain(StoredBlock(r).parentRoot)
  ELSE <<>>

\* C20: when the batch is in ascending slot order, its roots are pairwise
\* distinct and every parent is at a strictly smaller slot, a successful
\* loadBlocks returns every block of the batch on the parent chain of the end
\* block, down to the first ancestor missing from the batch, and nothing else.
C20_ChainComplete ==
  (LoadSucceeded /\ AscendingBatch /\ DistinctRoots /\ ParentsOlder)
    => RootsOf(retBlocks.list) = BatchChain(endBlockRoot)

\* Batch <<3, 2, 4, 5>> with end root 4: the sibling 5 is dropped, the list is
\* <<4, 2>> and stops there, the parent 1 of block 2 not being in the batch.
C20_Witness ==
  /\ LoadSucceeded /\ AscendingBatch /\ DistinctRoots /\ ParentsOlder
  /\ blockRoots = <<3, 2, 4, 5>> /\ endBlockRoot = 4
  /\ RootsOf(retBlocks.list) = <<4, 2>>
  /\ StoredBlock(2).parentRoot \notin Range(blockRoots)

====
